---- MODULE Spec2Model ----
(***************************************************************************)
(* Model of the quote-form backend (src/server.js): the POST /api/quote    *)
(* handler, its inline validation, and the three senders                   *)
(* sendNotificationEmail, pushToCRM and sendConfirmationEmail.             *)
(*                                                                         *)
(* A request body is a record of JSON values.  A JSON value is a record    *)
(* [kind, chars, n, b, elems, callable]; strings are sequences of          *)
(* one-character strings so that trim(), replace(/\D/g,"") and the email   *)
(* regular expression are computed character by character.                 *)
(***************************************************************************)
EXTENDS Integers, Sequences, FiniteSets

(* ------------------------------ bounds -------------------------------- *)

\* Longest run of digits offered as a phone string.
MaxPhoneDigits == 11

\* Number of requests one behaviour handles, one after the other.
MaxRequests == 2

(* ------------------------- program constants --------------------------- *)

\* name.trim().length < 2
MinNameLen == 2

\* phone.replace(/\D/g, "").length < 10
MinPhoneDigits == 10

(* --------------------------- JSON values ------------------------------- *)

JsUndefined == [kind |-> "undefined", chars |-> <<>>, n |-> 0, b |-> FALSE,
                elems |-> <<>>, callable |-> TRUE]

JsNull == [JsUndefined EXCEPT !.kind = "null"]

JsString(s) == [JsUndefined EXCEPT !.kind = "string", !.chars = s]

JsNumber(k) == [JsUndefined EXCEPT !.kind = "number", !.n = k]

JsBoolean(v) == [JsUndefined EXCEPT !.kind = "boolean", !.b = v]

\* An array of strings.
JsArray(es) == [JsUndefined EXCEPT !.kind = "array", !.elems = es]

\* A JSON object; callable = FALSE when it carries an own "toString" member,
\* which after JSON.parse is never a function, e.g. {"toString": 1}.
JsObject(c) == [JsUndefined EXCEPT !.kind = "object", !.callable = c]

\* JavaScript truthiness of a JSON value (the operand of ! and ||).
Truthy(v) ==
  CASE v.kind = "undefined" -> FALSE
    [] v.kind = "null"      -> FALSE
    [] v.kind = "string"    -> Len(v.chars) > 0
    [] v.kind = "number"    -> v.n # 0
    [] v.kind = "boolean"   -> v.b
    [] OTHER                -> TRUE

\* Only a string carries the methods trim and replace; calling either on any
\* other truthy JSON value raises TypeError ("x.trim is not a function").
HasStringMethods(v) == v.kind = "string"

DigitChars == <<"0", "1", "2", "3", "4", "5", "6", "7", "8", "9">>

IsDigit(c) == \E i \in 1..Len(DigitChars) : DigitChars[i] = c

\* The white space of String.prototype.trim and of the regular expression
\* class \s: tab, line feed, carriage return, form feed, space, vertical
\* tab (U+000B), no-break space (U+00A0), ogham space mark (U+1680) and the
\* byte order mark (U+FEFF).  The remaining white space characters (U+2000
\* to U+200A, U+2028, U+2029, U+202F, U+205F, U+3000) cannot be written in a
\* string of this language, so no input holds them.
WhiteSpaceChars ==
  {" ", "\t", "\n", "\r", "\f", "", " ", " ", "﻿"}

IsSpace(c) == c \in WhiteSpaceChars

RECURSIVE DecimalString(_)
DecimalString(k) ==
  IF k < 10 THEN <<DigitChars[k + 1]>>
  ELSE DecimalString(k \div 10) \o <<DigitChars[(k % 10) + 1]>>

RECURSIVE JoinComma(_)
JoinComma(es) ==
  IF Len(es) = 0 THEN <<>>
  ELSE IF Len(es) = 1 THEN es[1]
  ELSE es[1] \o <<",">> \o JoinComma(Tail(es))

\* ToString raises TypeError exactly for an object whose toString is not
\* callable (valueOf then returns the object itself, which is no primitive).
ToStringThrows(v) == v.kind = "object" /\ ~v.callable

\* ToString(v) as used by template literals and RegExp.prototype.test.
JsToString(v) ==
  CASE v.kind = "undefined" -> <<"u","n","d","e","f","i","n","e","d">>
    [] v.kind = "null"      -> <<"n","u","l","l">>
    [] v.kind = "string"    -> v.chars
    [] v.kind = "number"    -> DecimalString(v.n)
    [] v.kind = "boolean"   -> IF v.b THEN <<"t","r","u","e">>
                               ELSE <<"f","a","l","s","e">>
    [] v.kind = "array"     -> JoinComma(v.elems)
    [] OTHER                -> <<"[","o","b","j","e","c","t"," ",
                                 "O","b","j","e","c","t","]">>

(* ------------------------ string operations ---------------------------- *)

RECURSIVE TrimStart(_)
TrimStart(s) ==
  IF Len(s) > 0 /\ IsSpace(s[1]) THEN TrimStart(Tail(s)) ELSE s

RECURSIVE TrimEnd(_)
TrimEnd(s) ==
  IF Len(s) > 0 /\ IsSpace(s[Len(s)]) THEN TrimEnd(SubSeq(s, 1, Len(s) - 1))
  ELSE s

\* String.prototype.trim
Trim(s) == TrimEnd(TrimStart(s))

\* phone.replace(/\D/g, "")
DigitsOnly(s) == SelectSeq(s, IsDigit)

\* A character of the class [^\s@].
IsLocalChar(c) == ~IsSpace(c) /\ c # "@"

AllLocal(s, from, to) ==
  /\ from <= to
  /\ \A k \in from..to : IsLocalChar(s[k])

\* /^[^\s@]+@[^\s@]+\.[^\s@]+$/.test(s)
EmailPatternTest(s) ==
  \E i \in 1..Len(s) : \E j \in 1..Len(s) :
    /\ i < j
    /\ s[i] = "@"
    /\ s[j] = "."
    /\ AllLocal(s, 1, i - 1)
    /\ AllLocal(s, i + 1, j - 1)
    /\ AllLocal(s, j + 1, Len(s))

(* --------------------------- request bodies ---------------------------- *)

OptionalFields == {"address", "zipcode", "timeline", "budget", "message"}

\* req.body after express.json(); present = FALSE is a request whose body
\* the parser left undefined.
MkBody(nm, ph, em, sv, opt) ==
  [present |-> TRUE, name |-> nm, phone |-> ph, email |-> em, service |-> sv,
   address |-> opt["address"], zipcode |-> opt["zipcode"],
   timeline |-> opt["timeline"], budget |-> opt["budget"],
   message |-> opt["message"]]

EmptyBody ==
  MkBody(JsUndefined, JsUndefined, JsUndefined, JsUndefined,
         [f \in OptionalFields |-> JsUndefined])

NoBody == [EmptyBody EXCEPT !.present = FALSE]

RECURSIVE Fives(_)
Fives(k) == IF k = 0 THEN <<>> ELSE <<"5">> \o Fives(k - 1)

NameInputs ==
  { JsUndefined, JsNull,
    JsString(<<>>), JsString(<<"J">>), JsString(<<" ", "J", " ">>),
    JsString(<<"J", "o">>), JsString(<<" ", "J", "o", " ">>),
    JsString(<<"\t", "J", "\t">>), JsString(<<"J", "\n">>),
    JsString(<<" ", "J", "\r">>), JsString(<<"\t", "J", "o", "\n">>),
    JsNumber(0), JsNumber(5), JsBoolean(TRUE), JsArray(<<>>),
    JsObject(TRUE) }

PhoneInputs ==
  { JsUndefined,
    JsString(<<"5","5","5","-","1","2","3","4">>),
    JsString(<<"(","6","1","2",")"," ","4","7","3","-","3","1","9","6">>),
    JsNumber(0), JsNumber(1234567890) }
  \cup { JsString(Fives(k)) : k \in {0} \cup ((MinPhoneDigits - 1)..MaxPhoneDigits) }

EmailInputs ==
  { JsUndefined,
    JsString(<<"a","@","b",".","c","o">>),
    JsString(<<"a","@","b">>),
    JsString(<<"a",".","c","o">>),
    JsString(<<"a"," ","@","b",".","c">>),
    JsString(<<"a","\t","@","b",".","c","o">>),
    JsString(<<"a","@","b",".","c","o","\n">>),
    JsString(<<"a","@","b"," ",".","c","o">>),
    JsString(<<"@","b",".","c">>),
    JsString(<<"a","@","b",".">>),
    JsString(<<"a","@","b",".","c","@","d">>),
    JsNumber(5),
    JsArray(<<<<"a","@","b",".","c","o">>>>),
    JsObject(TRUE), JsObject(FALSE) }

ServiceInputs ==
  { JsUndefined, JsString(<<>>),
    JsString(<<"D","r","i","v","e","w","a","y">>),
    JsNumber(7), JsObject(TRUE), JsObject(FALSE) }

OptionalInputs ==
  { [f \in OptionalFields |-> JsUndefined],
    [f \in OptionalFields |-> JsString(<<"x">>)],
    [f \in OptionalFields |->
       IF f = "address" THEN JsObject(FALSE) ELSE JsUndefined],
    [f \in OptionalFields |->
       IF f = "message" THEN JsObject(FALSE) ELSE JsString(<<"x">>)] }

Bodies ==
  { MkBody(nm, ph, em, sv, opt) :
      nm \in NameInputs, ph \in PhoneInputs, em \in EmailInputs,
      sv \in ServiceInputs, opt \in OptionalInputs }

(* ----------------------------- validation ------------------------------ *)

NameMsg == "name is required"
PhoneMsg == "valid phone is required"
EmailMsg == "valid email is required"
ServiceMsg == "service is required"

\* if (!name || name.trim().length < 2) : evaluating the condition throws
NameCheckThrows(v) == Truthy(v) /\ ~HasStringMethods(v)

NameCheckFails(v) == ~Truthy(v) \/ Len(Trim(v.chars)) < MinNameLen

\* if (!phone || phone.replace(/\D/g, "").length < 10)
PhoneCheckThrows(v) == Truthy(v) /\ ~HasStringMethods(v)

PhoneCheckFails(v) == ~Truthy(v) \/ Len(DigitsOnly(v.chars)) < MinPhoneDigits

\* if (!email || !/^[^\s@]+@[^\s@]+\.[^\s@]+$/.test(email))
EmailCheckThrows(v) == Truthy(v) /\ ToStringThrows(v)

EmailCheckFails(v) == ~Truthy(v) \/ ~EmailPatternTest(JsToString(v))

\* if (!service)
ServiceCheckFails(v) == ~Truthy(v)

\* Lines 46-53: destructure req.body and build the errors array, one check
\* after the other.  threw is TRUE when a TypeError is raised on the way (it
\* reaches the outer catch); errors then holds the messages pushed before it.
ValidateBody(b) ==
  LET nameErr == IF NameCheckFails(b.name) THEN <<NameMsg>> ELSE <<>>
      phoneErr == IF PhoneCheckFails(b.phone) THEN <<PhoneMsg>> ELSE <<>>
      emailErr == IF EmailCheckFails(b.email) THEN <<EmailMsg>> ELSE <<>>
      serviceErr == IF ServiceCheckFails(b.service) THEN <<ServiceMsg>> ELSE <<>>
  IN IF ~b.present \/ NameCheckThrows(b.name)
     THEN [threw |-> TRUE, errors |-> <<>>]
     ELSE IF PhoneCheckThrows(b.phone)
     THEN [threw |-> TRUE, errors |-> nameErr]
     ELSE IF EmailCheckThrows(b.email)
     THEN [threw |-> TRUE, errors |-> nameErr \o phoneErr]
     ELSE [threw |-> FALSE,
           errors |-> nameErr \o phoneErr \o emailErr \o serviceErr]

(* ------------------------------ rendering ------------------------------ *)

NotProvided == JsString(<<"N","o","t"," ","p","r","o","v","i","d","e","d">>)

NotSpecified == JsString(<<"N","o","t"," ","s","p","e","c","i","f","i","e","d">>)

NoMessage ==
  JsString(<<"N","o"," ","m","e","s","s","a","g","e"," ",
             "p","r","o","v","i","d","e","d">>)

\* data.x || placeholder
OrDefault(v, placeholder) == IF Truthy(v) THEN v ELSE placeholder

\* The values interpolated into the notification email's html and subject.
NotificationParts(b) ==
  << b.name, b.phone, b.email, b.service,
     OrDefault(b.address, NotProvided), OrDefault(b.zipcode, NotProvided),
     OrDefault(b.timeline, NotSpecified), OrDefault(b.budget, NotSpecified),
     OrDefault(b.message, NoMessage) >>

\* The values interpolated into the confirmation email's html.
ConfirmationParts(b) == << b.name, b.service >>

\* The values interpolated into the handler's summary log line.
LogLineParts(b) == << b.name, b.email, b.service >>

\* Building a template literal raises TypeError when one part cannot be
\* converted to a string.
RenderThrows(parts) == \E i \in 1..Len(parts) : ToStringThrows(parts[i])

(* ------------------------------- state -------------------------------- *)

Senders == {"notification", "crm", "confirmation"}

VARIABLES
  env,            \* process.env: [crmUrl |-> CRM_WEBHOOK_URL is set]
  pc,             \* position of the handler of the current request
  body,           \* req.body
  errors,         \* the handler's errors array
  emailResult,    \* what sendNotificationEmail returned
  crmResult,      \* what pushToCRM returned
  confirmResult,  \* what sendConfirmationEmail returned
  crmHttp,        \* what the webhook's HTTP exchange did
  responses,      \* the HTTP responses written for the current request
  invoked,        \* per sender: how many times the handler called it
  outbound,       \* per sender: how many provider / webhook calls it issued
  trace,          \* the calls, returns and response of the current request
  served          \* number of requests finished before the current one

vars == << env, pc, body, errors, emailResult, crmResult, confirmResult,
           crmHttp, responses, invoked, outbound, trace, served >>

NoResult == [set |-> FALSE, success |-> FALSE, detail |-> "none", status |-> 0]

\* { success: true, id: result.data?.id }
SentResult(hasId) ==
  [set |-> TRUE, success |-> TRUE,
   detail |-> IF hasId THEN "id" ELSE "no id", status |-> 0]

\* { success: false, error: err.message }
CaughtResult == [set |-> TRUE, success |-> FALSE, detail |-> "err.message", status |-> 0]

\* { success: false, error: "CRM_WEBHOOK_URL not configured" }
NotConfiguredResult ==
  [set |-> TRUE, success |-> FALSE,
   detail |-> "CRM_WEBHOOK_URL not configured", status |-> 0]

\* Mutation of ResponseOk: every status below 400 counts as success.
ResponseOkBelow400(st) == st < 400

\* response.ok of the fetch API
ResponseOk(st) == 200 <= st /\ st <= 299

\* { success: response.ok, status: response.status }
CrmStatusResult(st) ==
  [set |-> TRUE, success |-> ResponseOk(st), detail |-> "status", status |-> st]

NoHttp == [fetch |-> "none", status |-> 0, text |-> "none"]

NoDetails ==
  [email_sent |-> FALSE, crm_pushed |-> FALSE, confirmation_sent |-> FALSE]

\* res.status(400).json({ success: false, errors })
Response400(errs) ==
  [status |-> 400, success |-> FALSE, errors |-> errs,
   message |-> "none", hasDetails |-> FALSE, details |-> NoDetails]

\* res.json({ success: true, message, details })
Response200(e, c, k) ==
  [status |-> 200, success |-> TRUE, errors |-> <<>>,
   message |-> "Quote request submitted successfully", hasDetails |-> TRUE,
   details |-> [email_sent |-> e.success, crm_pushed |-> c.success,
                confirmation_sent |-> k.success]]

\* res.status(500).json({ success: false, message })
Response500 ==
  [status |-> 500, success |-> FALSE, errors |-> <<>>,
   message |-> "Something went wrong. Please try again or call us directly.",
   hasDetails |-> FALSE, details |-> NoDetails]

\* Outcomes of resend.emails.send: it resolves with an id, resolves with an
\* error object and no id, or rejects.
ProviderOutcomes == {"id", "no id", "rejects"}

\* HTTP statuses the webhook may answer with.
WebhookStatuses == {200, 201, 299, 302, 404, 500}

Init ==
  /\ env \in {[crmUrl |-> TRUE], [crmUrl |-> FALSE]}
  /\ pc = "idle"
  /\ body = NoBody
  /\ errors = <<>>
  /\ emailResult = NoResult
  /\ crmResult = NoResult
  /\ confirmResult = NoResult
  /\ crmHttp = NoHttp
  /\ responses = <<>>
  /\ invoked = [s \in Senders |-> 0]
  /\ outbound = [s \in Senders |-> 0]
  /\ trace = <<>>
  /\ served = 0

(* ------------------------------ handler -------------------------------- *)

\* app.post("/api/quote", ...) is entered with the parsed body.
Receive ==
  /\ pc = "idle"
  /\ \E b \in Bodies \cup {NoBody} : body' = b
  /\ pc' = "validate"
  /\ UNCHANGED << env, errors, emailResult, crmResult, confirmResult, crmHttp,
                  responses, invoked, outbound, trace, served >>

\* Mutation of Validate: the 400 branch lacks its return and falls through
\* to the senders.
ValidateFallsThrough ==
  /\ pc = "validate"
  /\ LET v == ValidateBody(body) IN
       IF v.threw
       THEN /\ responses' = Append(responses, Response500)
            /\ trace' = Append(trace, "respond")
            /\ errors' = v.errors
            /\ pc' = "done"
       ELSE IF Len(v.errors) > 0
       THEN /\ responses' = Append(responses, Response400(v.errors))
            /\ trace' = Append(trace, "respond")
            /\ errors' = v.errors
            /\ pc' = "notify"
       ELSE /\ errors' = v.errors
            /\ pc' = "notify"
            /\ UNCHANGED << responses, trace >>
  /\ UNCHANGED << env, body, emailResult, crmResult, confirmResult, crmHttp,
                  invoked, outbound, served >>

\* Lines 46-59: destructure, validate, answer 400 on errors; a TypeError goes
\* to the outer catch, which answers 500.
Validate ==
  /\ pc = "validate"
  /\ LET v == ValidateBody(body) IN
       IF v.threw
       THEN /\ responses' = Append(responses, Response500)
            /\ trace' = Append(trace, "respond")
            /\ errors' = v.errors
            /\ pc' = "done"
       ELSE IF Len(v.errors) > 0
       THEN /\ responses' = Append(responses, Response400(v.errors))
            /\ trace' = Append(trace, "respond")
            /\ errors' = v.errors
            /\ pc' = "done"
       ELSE /\ errors' = v.errors
            /\ pc' = "notify"
            /\ UNCHANGED << responses, trace >>
  /\ UNCHANGED << env, body, emailResult, crmResult, confirmResult, crmHttp,
                  invoked, outbound, served >>

\* Mutation of NotifyCall: the handler does not await sendNotificationEmail
\* and goes on to the CRM push while the provider call is in flight.
NotifyCallNotAwaited ==
  /\ pc = "notify"
  /\ invoked' = [invoked EXCEPT !["notification"] = @ + 1]
  /\ outbound' = [outbound EXCEPT !["notification"] = @ + 1]
  /\ emailResult' = SentResult(FALSE)
  /\ trace' = Append(trace, "notification call")
  /\ pc' = "crm"
  /\ UNCHANGED << env, body, errors, crmResult, confirmResult, crmHttp,
                  responses, served >>

\* Lines 62 and 98-139: the handler calls sendNotificationEmail, which renders
\* the html and calls resend.emails.send; a TypeError while rendering is
\* caught at line 143 and the sender returns at once.
NotifyCall ==
  /\ pc = "notify"
  /\ invoked' = [invoked EXCEPT !["notification"] = @ + 1]
  /\ IF RenderThrows(NotificationParts(body))
     THEN /\ emailResult' = CaughtResult
          /\ trace' = trace \o <<"notification call", "notification return">>
          /\ pc' = "crm"
          /\ UNCHANGED outbound
     ELSE /\ outbound' = [outbound EXCEPT !["notification"] = @ + 1]
          /\ trace' = Append(trace, "notification call")
          /\ pc' = "notify await"
          /\ UNCHANGED emailResult
  /\ UNCHANGED << env, body, errors, crmResult, confirmResult, crmHttp,
                  responses, served >>

\* Mutation of NotifyReturn: sendNotificationEmail has no try/catch, so a
\* rejection reaches the handler's outer catch.
NotifyReturnUncaught(o) ==
  /\ pc = "notify await"
  /\ IF o = "rejects"
     THEN /\ responses' = Append(responses, Response500)
          /\ trace' = Append(trace, "respond")
          /\ pc' = "done"
          /\ UNCHANGED emailResult
     ELSE /\ emailResult' = SentResult(o = "id")
          /\ trace' = Append(trace, "notification return")
          /\ pc' = "crm"
          /\ UNCHANGED responses
  /\ UNCHANGED << env, body, errors, crmResult, confirmResult, crmHttp,
                  invoked, outbound, served >>

\* Mutation of NotifyReturn: a rejected send is tried again.
NotifyReturnRetries(o) ==
  /\ pc = "notify await"
  /\ IF o = "rejects" /\ outbound["notification"] < 2
     THEN /\ pc' = "notify"
          /\ UNCHANGED << emailResult, trace >>
     ELSE /\ emailResult' = IF o = "rejects" THEN CaughtResult
                            ELSE SentResult(o = "id")
          /\ trace' = Append(trace, "notification return")
          /\ pc' = "crm"
  /\ UNCHANGED << env, body, errors, crmResult, confirmResult, crmHttp,
                  responses, invoked, outbound, served >>

\* Lines 134-146: the provider call settles and sendNotificationEmail returns.
NotifyReturn(o) ==
  /\ pc = "notify await"
  /\ emailResult' = IF o = "rejects" THEN CaughtResult ELSE SentResult(o = "id")
  /\ trace' = Append(trace, "notification return")
  /\ pc' = "crm"
  /\ UNCHANGED << env, body, errors, crmResult, confirmResult, crmHttp,
                  responses, invoked, outbound, served >>

\* Lines 67 and 187-224: the handler calls pushToCRM, which returns at once
\* when no webhook URL is set and otherwise issues the POST.
CrmCall ==
  /\ pc = "crm"
  /\ invoked' = [invoked EXCEPT !["crm"] = @ + 1]
  /\ IF ~env.crmUrl
     THEN /\ crmResult' = NotConfiguredResult
          /\ trace' = trace \o <<"crm call", "crm return">>
          /\ pc' = "confirm"
          /\ UNCHANGED outbound
     ELSE /\ outbound' = [outbound EXCEPT !["crm"] = @ + 1]
          /\ trace' = Append(trace, "crm call")
          /\ pc' = "crm fetch"
          /\ UNCHANGED crmResult
  /\ UNCHANGED << env, body, errors, emailResult, confirmResult, crmHttp,
                  responses, served >>

\* Line 220 settles with a network failure: caught at line 230.
CrmFetchRejects ==
  /\ pc = "crm fetch"
  /\ crmHttp' = [crmHttp EXCEPT !.fetch = "rejected"]
  /\ crmResult' = CaughtResult
  /\ trace' = Append(trace, "crm return")
  /\ pc' = "confirm"
  /\ UNCHANGED << env, body, errors, emailResult, confirmResult, responses,
                  invoked, outbound, served >>

\* Line 220 settles with a response; line 226 starts reading its body.
CrmFetchResponds(st) ==
  /\ pc = "crm fetch"
  /\ crmHttp' = [crmHttp EXCEPT !.fetch = "responded", !.status = st]
  /\ pc' = "crm text"
  /\ UNCHANGED << env, body, errors, emailResult, crmResult, confirmResult,
                  responses, invoked, outbound, trace, served >>

\* Lines 226-233: response.text() settles and pushToCRM returns.
CrmTextSettles(ok) ==
  /\ pc = "crm text"
  /\ crmHttp' = [crmHttp EXCEPT !.text = IF ok THEN "read" ELSE "rejected"]
  /\ crmResult' = IF ok THEN CrmStatusResult(crmHttp.status) ELSE CaughtResult
  /\ trace' = Append(trace, "crm return")
  /\ pc' = "confirm"
  /\ UNCHANGED << env, body, errors, emailResult, confirmResult, responses,
                  invoked, outbound, served >>

\* Lines 72 and 153-174: the handler calls sendConfirmationEmail.
ConfirmCall ==
  /\ pc = "confirm"
  /\ invoked' = [invoked EXCEPT !["confirmation"] = @ + 1]
  /\ IF RenderThrows(ConfirmationParts(body))
     THEN /\ confirmResult' = CaughtResult
          /\ trace' = trace \o <<"confirmation call", "confirmation return">>
          /\ pc' = "log"
          /\ UNCHANGED outbound
     ELSE /\ outbound' = [outbound EXCEPT !["confirmation"] = @ + 1]
          /\ trace' = Append(trace, "confirmation call")
          /\ pc' = "confirm await"
          /\ UNCHANGED confirmResult
  /\ UNCHANGED << env, body, errors, emailResult, crmResult, crmHttp,
                  responses, served >>

\* Lines 169-181: the provider call settles and sendConfirmationEmail returns.
ConfirmReturn(o) ==
  /\ pc = "confirm await"
  /\ confirmResult' = IF o = "rejects" THEN CaughtResult ELSE SentResult(o = "id")
  /\ trace' = Append(trace, "confirmation return")
  /\ pc' = "log"
  /\ UNCHANGED << env, body, errors, emailResult, crmResult, crmHttp,
                  responses, invoked, outbound, served >>

\* Lines 74-91: build the summary log line, then answer 200 with the three
\* flags; a TypeError while building the line goes to the outer catch.
Respond ==
  /\ pc = "log"
  /\ responses' =
       Append(responses,
              IF RenderThrows(LogLineParts(body)) THEN Response500
              ELSE Response200(emailResult, crmResult, confirmResult))
  /\ trace' = Append(trace, "respond")
  /\ pc' = "done"
  /\ UNCHANGED << env, body, errors, emailResult, crmResult, confirmResult,
                  crmHttp, invoked, outbound, served >>

\* The handler holds nothing between requests: the next request starts from
\* fresh locals.
NextRequest ==
  /\ pc = "done"
  /\ served + 1 < MaxRequests
  /\ served' = served + 1
  /\ pc' = "idle"
  /\ body' = NoBody
  /\ errors' = <<>>
  /\ emailResult' = NoResult
  /\ crmResult' = NoResult
  /\ confirmResult' = NoResult
  /\ crmHttp' = NoHttp
  /\ responses' = <<>>
  /\ invoked' = [s \in Senders |-> 0]
  /\ outbound' = [s \in Senders |-> 0]
  /\ trace' = <<>>
  /\ UNCHANGED env

Next ==
  \/ Receive
  \/ Validate
  \/ NotifyCall
  \/ \E o \in ProviderOutcomes : NotifyReturn(o)
  \/ CrmCall
  \/ CrmFetchRejects
  \/ \E st \in WebhookStatuses : CrmFetchResponds(st)
  \/ \E ok \in BOOLEAN : CrmTextSettles(ok)
  \/ ConfirmCall
  \/ \E o \in ProviderOutcomes : ConfirmReturn(o)
  \/ Respond
  \/ NextRequest

Spec == Init /\ [][Next]_vars

(* ------------------------------- claims -------------------------------- *)

\* The request has gone past validation without a TypeError and with an
\* empty errors array.
PassedValidation ==
  /\ pc \notin {"idle", "validate"}
  /\ ~ValidateBody(body).threw
  /\ Len(ValidateBody(body).errors) = 0

NothingSent == \A s \in Senders : invoked[s] = 0 /\ outbound[s] = 0

Answered(st) == Len(responses) = 1 /\ responses[1].status = st

\* C1: a request whose validation produces at least one error is answered
\* 400 with success false and that error list, and no sender is invoked at
\* any point of the request.
C1_ValidationFailureAnswers400 ==
  (/\ pc \notin {"idle", "validate"}
   /\ ~ValidateBody(body).threw
   /\ Len(ValidateBody(body).errors) > 0) =>
    /\ pc = "done"
    /\ Len(errors) > 0
    /\ Len(responses) = 1
    /\ responses[1].status = 400
    /\ responses[1].success = FALSE
    /\ responses[1].errors = errors
    /\ ~responses[1].hasDetails
    /\ NothingSent

C1_Witness ==
  /\ pc = "done"
  /\ Answered(400)
  /\ responses[1].errors = <<NameMsg, PhoneMsg, EmailMsg, ServiceMsg>>
  /\ NothingSent

\* C2: once a request has passed validation, each of the three senders is
\* called, whatever the outcome of the senders before it.
C2_AllSendersAttempted ==
  (PassedValidation /\ pc = "done") => \A s \in Senders : invoked[s] = 1

C2_Witness ==
  /\ pc = "done"
  /\ PassedValidation
  /\ emailResult = CaughtResult
  /\ outbound["notification"] = 1
  /\ crmHttp.fetch = "rejected"
  /\ crmResult = CaughtResult
  /\ invoked["confirmation"] = 1
  /\ outbound["confirmation"] = 1

\* C3 (as claimed): every request that passes validation is answered 200
\* with success true and the three flags equal to the senders' outcomes.
C3_AcceptedAnswers200 ==
  (PassedValidation /\ pc = "done") =>
    responses = <<Response200(emailResult, crmResult, confirmResult)>>

\* C4 (as claimed): with no webhook URL set, pushToCRM fails with the
\* not-configured reason and issues no HTTP call, and a submission that
\* passes validation is answered 200 with crm_pushed false while both
\* email senders are called.
C4_NoWebhookStill200 ==
  (~env.crmUrl /\ PassedValidation /\ pc = "done") =>
    /\ crmResult = NotConfiguredResult
    /\ outbound["crm"] = 0
    /\ crmHttp = NoHttp
    /\ Answered(200)
    /\ responses[1].hasDetails
    /\ ~responses[1].details.crm_pushed
    /\ invoked["notification"] = 1
    /\ invoked["confirmation"] = 1

\* The name rule as the specification words it: absent, not a string, or
\* trimmed length below 2.
NameRuleFails(v) ==
  \/ v.kind \in {"undefined", "null"}
  \/ v.kind # "string"
  \/ Len(Trim(v.chars)) < MinNameLen

\* C5 (as claimed): a submission whose name is absent, not a string, or of
\* trimmed length below 2 is answered 400 with "name is required" among the
\* errors.
C5_BadNameAnswers400 ==
  (pc = "done" /\ body.present /\ NameRuleFails(body.name)) =>
    /\ Answered(400)
    /\ \E i \in 1..Len(responses[1].errors) : responses[1].errors[i] = NameMsg

\* The other three rules as the specification words them.
PhoneRuleFails(v) ==
  \/ v.kind \in {"undefined", "null"}
  \/ Len(DigitsOnly(JsToString(v))) < MinPhoneDigits

EmailRuleFails(v) ==
  \/ v.kind \in {"undefined", "null"}
  \/ ToStringThrows(v)
  \/ ~EmailPatternTest(JsToString(v))

ServiceRuleFails(v) == ~Truthy(v)

RuleErrors(b) ==
  (IF NameRuleFails(b.name) THEN <<NameMsg>> ELSE <<>>)
  \o (IF PhoneRuleFails(b.phone) THEN <<PhoneMsg>> ELSE <<>>)
  \o (IF EmailRuleFails(b.email) THEN <<EmailMsg>> ELSE <<>>)
  \o (IF ServiceRuleFails(b.service) THEN <<ServiceMsg>> ELSE <<>>)

\* C6 (as claimed): for every request body validation yields the list with
\* one message per failing rule, in the order name, phone, email, service;
\* the request goes on to the senders exactly when that list is empty.
C6_ErrorListPerRule ==
  (pc \notin {"idle", "validate"} /\ body.present) =>
    /\ errors = RuleErrors(body)
    /\ (Len(RuleErrors(body)) = 0) <=> ~(pc = "done" /\ NothingSent)
    /\ (Len(RuleErrors(body)) > 0) => Answered(400) /\ responses[1].errors = RuleErrors(body)

CallOrder ==
  << "notification call", "notification return", "crm call", "crm return",
     "confirmation call", "confirmation return", "respond" >>

IsPrefix(s, t) == Len(s) <= Len(t) /\ \A i \in 1..Len(s) : s[i] = t[i]

\* C7: in a request that passed validation the senders are called in the
\* order notification, CRM, confirmation, each after the previous one has
\* returned, and the response is written after all three have returned.
C7_SendersInOrder ==
  PassedValidation =>
    /\ IsPrefix(trace, CallOrder)
    /\ (Len(responses) > 0) =>
         /\ trace = CallOrder
         /\ emailResult.set /\ crmResult.set /\ confirmResult.set

C7_Witness ==
  /\ pc = "done"
  /\ PassedValidation
  /\ trace = CallOrder
  /\ Answered(200)
  /\ outbound = [s \in Senders |-> 1]

\* C8: with a webhook URL set, pushToCRM reports success exactly when the
\* POST got a response, its body was read and the status is 2xx, and then
\* carries the status; a network failure or a failed body read is reported
\* as success false with the error's message and the handler goes on.
C8_CrmOutcome ==
  (env.crmUrl /\ crmResult.set) =>
    /\ crmResult.success <=>
         /\ crmHttp.fetch = "responded"
         /\ crmHttp.text = "read"
         /\ crmHttp.status \in 200..299
    /\ crmResult.success =>
         crmResult.detail = "status" /\ crmResult.status = crmHttp.status
    /\ (crmHttp.fetch = "rejected" \/ crmHttp.text = "rejected") =>
         crmResult = CaughtResult
    /\ pc \in {"confirm", "confirm await", "log", "done"}
    /\ pc = "done" => invoked["confirmation"] = 1

C8_Witness ==
  /\ env.crmUrl
  /\ pc = "done"
  /\ crmHttp.fetch = "responded"
  /\ crmHttp.status = 302
  /\ crmHttp.text = "read"
  /\ crmResult = [set |-> TRUE, success |-> FALSE, detail |-> "status", status |-> 302]
  /\ Answered(200)
  /\ ~responses[1].details.crm_pushed

\* C9: one request calls each sender at most once, issues at most one
\* notification email, one CRM POST and one confirmation email, and is
\* answered exactly once, with 400, 200 or 500.
C9_AtMostOnce ==
  /\ \A s \in Senders : invoked[s] <= 1 /\ outbound[s] <= 1
  /\ Len(responses) <= 1
  /\ pc = "done" => Len(responses) = 1 /\ responses[1].status \in {400, 200, 500}

C9_Witness ==
  /\ pc = "done"
  /\ emailResult = CaughtResult
  /\ crmResult = CaughtResult
  /\ confirmResult = CaughtResult
  /\ outbound = [s \in Senders |-> 1]
  /\ Answered(200)

\* C10 (as claimed): a request answered 500 has called no sender and issued
\* no email and no CRM POST.
C10_No500AfterSending ==
  (Len(responses) > 0 /\ responses[1].status = 500) => NothingSent

====
